---- MODULE Spec2Model ----
(***************************************************************************)
(* Model of pkg/bgp/config/serve.go: the configuration reload loop         *)
(* ReadConfigfileServe with its two notification sources (the SIGHUP       *)
(* registration and the viper OnConfigChange callback), the consumer of    *)
(* configCh, and the pure diff function UpdatePeerGroupConfig.             *)
(***************************************************************************)
EXTENDS Integers, Sequences, FiniteSets

\* ------------------------------------------------------------------ bounds
\* Number of raw file-change notifications the watcher raises in a run.
MaxFs == 2
\* Number of SIGHUP signals the operating system raises in a run.
MaxHup == 1
\* Largest capacity of the consumer channel handed to ReadConfigfileServe.
MaxChanCap == 1
\* Largest number of peer groups in one snapshot, and of payload values.
MaxPeerGroups == 2
MaxPayload == 2
\* Largest number of policy definitions in one routing policy.
MaxPolicyDefs == 2

\* ------------------------------------------------------- program constants
\* serve.go:66  "if notFoundCnt < 5"
RetryCeiling == 5

\* ------------------------------------------------------------------- state
VARIABLES
    pc,           \* position of the loop: "load","pause","send","wait","fatal"
    cnt,          \* serve.go:58 cnt
    notFoundCnt,  \* serve.go:58 notFoundCnt
    c,            \* serve.go:61 c, the snapshot of the last successful load
    err,          \* serve.go:61 err, the outcome of the last load ("none" before it)
    log,          \* last report the loop emitted
    configCh,     \* buffer of the consumer channel
    chCap,        \* capacity of the consumer channel (0 = unbuffered)
    received,     \* snapshots the consumer has taken from configCh
    pendingCb,    \* OnConfigChange callbacks blocked on sigReloadConfig
    raisedFs,     \* history: file-change notifications raised
    raisedHup,    \* history: SIGHUP signals raised
    droppedHup,   \* history: SIGHUPs whose non-blocking send found no receiver
    recvFs,       \* history: receives of line 95 served by a callback
    recvHup,      \* history: receives of line 95 served by a SIGHUP
    nLoads,       \* history: completed calls of ReadConfigfile
    retries,      \* history: pause-and-retry steps (lines 67-68)
    startup,      \* history: outcomes of the loads up to the first success
    burstLoad,    \* history: -1 no file change yet; k >= 1 all of them were
                  \* raised while load k (or its publish) was in flight; 0 otherwise
    curC, newC,   \* arguments of the diff call
    addedPg, deletedPg, updatedPg,   \* its three results
    dpc,          \* "idle", "args" before the diff call, "done" after it
    curNb, newNb, \* the Neighbors of the two snapshots
    addedNb, deletedNb, updatedNb,   \* results of UpdateNeighborConfig
    npc,          \* "idle", "args" before the neighbor diff, "done" after it
    currentPolicy, newPolicy,        \* arguments of CheckPolicyDifference
    result,       \* serve.go:172 result
    ppc           \* "idle", "args" before the policy check, "done" after it

loopVars == <<pc, cnt, notFoundCnt, c, err, log, configCh, chCap, received,
              pendingCb, raisedFs, raisedHup, droppedHup, recvFs, recvHup,
              nLoads, retries, startup, burstLoad>>
pgVars == <<curC, newC, addedPg, deletedPg, updatedPg, dpc>>
nbVars == <<curNb, newNb, addedNb, deletedNb, updatedNb, npc>>
policyVars == <<currentPolicy, newPolicy, result, ppc>>
diffVars == <<pgVars, nbVars, policyVars>>
vars == <<loopVars, diffVars>>

\* Outcomes of ReadConfigfile (serve.go:29-42): ReadInConfig fails because
\* the file does not exist or cannot be parsed, UnmarshalExact fails (both
\* "ParseError"), the defaults step fails, or the snapshot is returned.
Outcomes == {"ok", "NotFound", "ParseError", "DefaultsError"}

\* ------------------------------------------------------ ReadConfigfileServe
\* serve.go:63  os.IsNotExist(err)
IsNotExistM(res) == res # "ok"
IsNotExist(res) == res = "NotFound"

\* serve.go:66  notFoundCnt < 5, evaluated after the increment of line 65
ShouldRetryLate(nf) == nf <= RetryCeiling
ShouldRetryEarly(nf) == nf < 3
ShouldRetry(nf) == nf < RetryCeiling

\* serve.go:83  the ERROR branch is fatal only before the first publish
IsFirstLoadM(n) == n <= 1
IsFirstLoad(n) == n = 0

\* serve.go:61  each call of ReadConfigfile allocates a fresh snapshot
\* (serve.go:30); the k-th snapshot loaded successfully is identified by k.
NewSnapshotM(n) == 1
NewSnapshot(n) == n + 1

\* serve.go:62,72-73,82-93  where a failed load leaves the loop
AfterErrorM(n) == IF IsFirstLoad(n) THEN "fatal" ELSE "send"
AfterError(n) == IF IsFirstLoad(n) THEN "fatal" ELSE "wait"

\* serve.go:60-93  one load attempt and the branch it takes
Load(res) ==
    /\ pc = "load"
    /\ err' = res
    /\ nLoads' = nLoads + 1
    /\ startup' = IF cnt = 0 THEN Append(startup, res) ELSE startup
    /\ IF res = "ok"
       THEN /\ cnt' = cnt + 1
            /\ c' = NewSnapshot(cnt)
            /\ log' = IF cnt = 0 THEN "Finished" ELSE log
            /\ pc' = "send"
            /\ UNCHANGED notFoundCnt
       ELSE IF IsNotExist(res) /\ ShouldRetry(notFoundCnt + 1)
       THEN /\ notFoundCnt' = notFoundCnt + 1
            /\ log' = "NotLoaded"
            /\ pc' = "pause"
            /\ UNCHANGED <<cnt, c>>
       ELSE /\ notFoundCnt' = IF IsNotExist(res) THEN notFoundCnt + 1 ELSE notFoundCnt
            /\ pc' = AfterError(cnt)
            /\ log' = IF IsFirstLoad(cnt) THEN "Fatal" ELSE "CantReload"
            /\ UNCHANGED <<cnt, c>>
    /\ UNCHANGED <<configCh, chCap, received, pendingCb, raisedFs, raisedHup,
                   droppedHup, recvFs, recvHup, retries, burstLoad, diffVars>>

\* serve.go:67-68  time.Sleep(5); continue
Pause ==
    /\ pc = "pause"
    /\ pc' = "load"
    /\ retries' = retries + 1
    /\ UNCHANGED <<cnt, notFoundCnt, c, err, log, configCh, chCap, received,
                   pendingCb, raisedFs, raisedHup, droppedHup, recvFs, recvHup,
                   nLoads, startup, burstLoad, diffVars>>

\* a send that never blocks: the snapshot is handed to the channel whether
\* or not it has room
SendBufferedNoBlock ==
    /\ pc = "send"
    /\ configCh' = Append(configCh, c)
    /\ pc' = "wait"
    /\ UNCHANGED <<cnt, notFoundCnt, c, err, log, chCap, received, pendingCb,
                   raisedFs, raisedHup, droppedHup, recvFs, recvHup, nLoads,
                   retries, startup, burstLoad, diffVars>>

\* serve.go:80  configCh <- c on a channel with free buffer space
SendBuffered ==
    /\ pc = "send"
    /\ Len(configCh) < chCap
    /\ configCh' = Append(configCh, c)
    /\ pc' = "wait"
    /\ UNCHANGED <<cnt, notFoundCnt, c, err, log, chCap, received, pendingCb,
                   raisedFs, raisedHup, droppedHup, recvFs, recvHup, nLoads,
                   retries, startup, burstLoad, diffVars>>

\* serve.go:80  configCh <- c on an unbuffered channel: the send completes
\* when the consumer receives
SendHandoff ==
    /\ pc = "send"
    /\ chCap = 0
    /\ received' = Append(received, c)
    /\ pc' = "wait"
    /\ UNCHANGED <<cnt, notFoundCnt, c, err, log, configCh, chCap, pendingCb,
                   raisedFs, raisedHup, droppedHup, recvFs, recvHup, nLoads,
                   retries, startup, burstLoad, diffVars>>

\* the consumer of configCh (serve.go:44, parameter configCh) takes the
\* oldest buffered snapshot
Consume ==
    /\ configCh # <<>>
    /\ received' = Append(received, Head(configCh))
    /\ configCh' = Tail(configCh)
    /\ UNCHANGED <<pc, cnt, notFoundCnt, c, err, log, chCap, pendingCb,
                   raisedFs, raisedHup, droppedHup, recvFs, recvHup, nLoads,
                   retries, startup, burstLoad, diffVars>>

\* serve.go:54-57  one more callback invocation blocked on its send
BlockCallbackM(p) == IF p >= 1 THEN 1 ELSE p + 1
BlockCallback(p) == p + 1

\* The load in flight: the call of ReadConfigfile under way, or the load
\* whose snapshot is being published; 0 when the loop pauses or waits.
InFlight == IF pc = "load" THEN nLoads + 1 ELSE IF pc = "send" THEN nLoads ELSE 0

\* serve.go:54-57  the watcher raises a file-change notification: the
\* callback runs and blocks on the unbuffered sigReloadConfig
FsEvent ==
    /\ pc # "fatal"
    /\ raisedFs < MaxFs
    /\ raisedFs' = raisedFs + 1
    /\ pendingCb' = BlockCallback(pendingCb)
    /\ burstLoad' = IF burstLoad = -1 \/ burstLoad = InFlight THEN InFlight ELSE 0
    /\ UNCHANGED <<pc, cnt, notFoundCnt, c, err, log, configCh, chCap, received,
                   raisedHup, droppedHup, recvFs, recvHup, nLoads, retries,
                   startup, diffVars>>

\* serve.go:95-98  <-sigReloadConfig receives from a blocked callback
RecvCallback ==
    /\ pc = "wait"
    /\ pendingCb > 0
    /\ pendingCb' = pendingCb - 1
    /\ recvFs' = recvFs + 1
    /\ pc' = "load"
    /\ log' = "Reload"
    /\ UNCHANGED <<cnt, notFoundCnt, c, err, configCh, chCap, received, raisedFs,
                   raisedHup, droppedHup, recvHup, nLoads, retries, startup,
                   burstLoad, diffVars>>

\* serve.go:45-46,95-98  a SIGHUP arrives while the loop is parked on
\* <-sigReloadConfig: the non-blocking send of signal.Notify succeeds
SigHupDelivered ==
    /\ pc = "wait"
    /\ raisedHup < MaxHup
    /\ raisedHup' = raisedHup + 1
    /\ recvHup' = recvHup + 1
    /\ pc' = "load"
    /\ log' = "Reload"
    /\ UNCHANGED <<cnt, notFoundCnt, c, err, configCh, chCap, received, pendingCb,
                   raisedFs, droppedHup, recvFs, nLoads, retries, startup,
                   burstLoad, diffVars>>

\* serve.go:45-46  a SIGHUP arrives while the loop is not parked on the
\* receive (or a blocked callback is served first): sigReloadConfig has no
\* buffer, so the non-blocking send of signal.Notify discards the signal
SigHupDropped ==
    /\ pc # "fatal"
    /\ pc # "wait" \/ pendingCb > 0
    /\ raisedHup < MaxHup
    /\ raisedHup' = raisedHup + 1
    /\ droppedHup' = droppedHup + 1
    /\ UNCHANGED <<pc, cnt, notFoundCnt, c, err, log, configCh, chCap, received,
                   pendingCb, raisedFs, recvFs, recvHup, nLoads, retries,
                   startup, burstLoad, diffVars>>

PolicyIdle ==
    /\ currentPolicy = <<>> /\ newPolicy = <<>>
    /\ result = FALSE /\ ppc = "idle"

DiffIdle ==
    /\ curC = <<>> /\ newC = <<>>
    /\ addedPg = <<>> /\ deletedPg = <<>> /\ updatedPg = <<>>
    /\ dpc = "idle"
    /\ curNb = <<>> /\ newNb = <<>>
    /\ addedNb = <<>> /\ deletedNb = <<>> /\ updatedNb = <<>>
    /\ npc = "idle"
    /\ PolicyIdle

\* serve.go:44-58  state on entry to the for loop
Init ==
    /\ pc = "load"
    /\ cnt = 0 /\ notFoundCnt = 0
    /\ c = 0 /\ err = "none" /\ log = "none"
    /\ configCh = <<>>
    /\ chCap \in 0..MaxChanCap
    /\ received = <<>>
    /\ pendingCb = 0 /\ raisedFs = 0 /\ raisedHup = 0 /\ droppedHup = 0
    /\ recvFs = 0 /\ recvHup = 0 /\ nLoads = 0 /\ retries = 0
    /\ startup = <<>> /\ burstLoad = -1
    /\ DiffIdle

Next ==
    \/ \E res \in Outcomes : Load(res)
    \/ Pause
    \/ SendBuffered
    \/ SendHandoff
    \/ Consume
    \/ FsEvent
    \/ RecvCallback
    \/ SigHupDelivered
    \/ SigHupDropped

Spec == Init /\ [][Next]_vars

\* ----------------------------------------------------- UpdatePeerGroupConfig
\* A peer group: the identity key Config.PeerGroupName and, as one value,
\* everything else the deep comparison looks at.
PgNames == {"A", "B", "C"}
PeerGroups == [name : PgNames, payload : 1..MaxPayload]

\* I1 of the data model: peer-group names are unique within a snapshot.
UniqueNames(s) == \A i, j \in 1..Len(s) : s[i].name = s[j].name => i = j
Snapshots ==
    {s \in UNION {[1..n -> PeerGroups] : n \in 0..MaxPeerGroups} : UniqueNames(s)}

\* existPeerGroup(name, slice): index (from 0) of the peer group of that
\* name in the slice, -1 when there is none
existPeerGroup(n, b) ==
    IF \E i \in 1..Len(b) : b[i].name = n
    THEN (CHOOSE i \in 1..Len(b) :
             /\ b[i].name = n
             /\ \A k \in 1..(i - 1) : b[k].name # n) - 1
    ELSE -1

\* PeerGroup.Equal: deep comparison of all configured fields
PeerGroupEqual(a, b) == a.name = b.name /\ a.payload = b.payload

\* serve.go:114-126  the loop over newC.PeerGroups, from element i on
RECURSIVE NewLoop(_, _, _, _, _)
NewLoop(i, cur, new, added, updated) ==
    IF i > Len(new) THEN [added |-> added, updated |-> updated]
    ELSE LET n == new[i]
             idx == existPeerGroup(n.name, cur)
         IN  IF idx < 0
             THEN NewLoop(i + 1, cur, new, Append(added, n), updated)
             ELSE IF ~PeerGroupEqual(n, cur[idx + 1])
             THEN NewLoop(i + 1, cur, new, added, Append(updated, n))
             ELSE NewLoop(i + 1, cur, new, added, updated)

\* the same loop with a slip: it reports the old value of an updated group
RECURSIVE NewLoopOld(_, _, _, _, _)
NewLoopOld(i, cur, new, added, updated) ==
    IF i > Len(new) THEN [added |-> added, updated |-> updated]
    ELSE LET n == new[i]
             idx == existPeerGroup(n.name, cur)
         IN  IF idx < 0
             THEN NewLoopOld(i + 1, cur, new, Append(added, n), updated)
             ELSE IF ~PeerGroupEqual(n, cur[idx + 1])
             THEN NewLoopOld(i + 1, cur, new, added, Append(updated, cur[idx + 1]))
             ELSE NewLoopOld(i + 1, cur, new, added, updated)

\* serve.go:128-132  the loop over curC.PeerGroups, from element i on
RECURSIVE CurLoop(_, _, _, _)
CurLoop(i, cur, new, deleted) ==
    IF i > Len(cur) THEN deleted
    ELSE IF existPeerGroup(cur[i].name, new) < 0
    THEN CurLoop(i + 1, cur, new, Append(deleted, cur[i]))
    ELSE CurLoop(i + 1, cur, new, deleted)

UpdatePeerGroupConfigOld(cur, new) ==
    LET r == NewLoopOld(1, cur, new, <<>>, <<>>)
    IN  [added |-> r.added, deleted |-> CurLoop(1, cur, new, <<>>), updated |-> r.updated]

\* the loop over newC.PeerGroups with the negation of line 117 left out
RECURSIVE NewLoopNoNeg(_, _, _, _, _)
NewLoopNoNeg(i, cur, new, added, updated) ==
    IF i > Len(new) THEN [added |-> added, updated |-> updated]
    ELSE LET n == new[i]
             idx == existPeerGroup(n.name, cur)
         IN  IF idx < 0
             THEN NewLoopNoNeg(i + 1, cur, new, Append(added, n), updated)
             ELSE IF PeerGroupEqual(n, cur[idx + 1])
             THEN NewLoopNoNeg(i + 1, cur, new, added, Append(updated, n))
             ELSE NewLoopNoNeg(i + 1, cur, new, added, updated)

\* the loop over curC.PeerGroups putting each deleted group in front
RECURSIVE CurLoopRev(_, _, _, _)
CurLoopRev(i, cur, new, deleted) ==
    IF i > Len(cur) THEN deleted
    ELSE IF existPeerGroup(cur[i].name, new) < 0
    THEN CurLoopRev(i + 1, cur, new, <<cur[i]>> \o deleted)
    ELSE CurLoopRev(i + 1, cur, new, deleted)

\* the loop over curC.PeerGroups looking each group up in the wrong slice
RECURSIVE CurLoopSelf(_, _, _, _)
CurLoopSelf(i, cur, new, deleted) ==
    IF i > Len(cur) THEN deleted
    ELSE IF existPeerGroup(cur[i].name, cur) < 0
    THEN CurLoopSelf(i + 1, cur, new, Append(deleted, cur[i]))
    ELSE CurLoopSelf(i + 1, cur, new, deleted)

UpdatePeerGroupConfigNoNeg(cur, new) ==
    LET r == NewLoopNoNeg(1, cur, new, <<>>, <<>>)
    IN  [added |-> r.added, deleted |-> CurLoop(1, cur, new, <<>>), updated |-> r.updated]

UpdatePeerGroupConfigRev(cur, new) ==
    LET r == NewLoop(1, cur, new, <<>>, <<>>)
    IN  [added |-> r.added, deleted |-> CurLoopRev(1, cur, new, <<>>), updated |-> r.updated]

UpdatePeerGroupConfigSelf(cur, new) ==
    LET r == NewLoop(1, cur, new, <<>>, <<>>)
    IN  [added |-> r.added, deleted |-> CurLoopSelf(1, cur, new, <<>>), updated |-> r.updated]

\* serve.go:109-134
UpdatePeerGroupConfig(cur, new) ==
    LET r == NewLoop(1, cur, new, <<>>, <<>>)
    IN  [added |-> r.added, deleted |-> CurLoop(1, cur, new, <<>>), updated |-> r.updated]

\* a caller hands two snapshots to UpdatePeerGroupConfig
CallUpdatePeerGroupConfig ==
    /\ dpc = "args"
    /\ LET r == UpdatePeerGroupConfig(curC, newC)
       IN  /\ addedPg' = r.added
           /\ deletedPg' = r.deleted
           /\ updatedPg' = r.updated
    /\ dpc' = "done"
    /\ UNCHANGED <<curC, newC, nbVars, policyVars, loopVars>>

\* ------------------------------------------------------ UpdateNeighborConfig
\* A neighbor: the identity key, its peer address, and, as one value,
\* everything else the deep comparison looks at. Each peer-group name
\* stands for one address.
AddrOf(name) ==
    CASE name = "A" -> "10.0.0.1"
      [] name = "B" -> "10.0.0.2"
      [] OTHER -> "10.0.0.3"
NbAddrs == {AddrOf(n) : n \in PgNames}
Neighbors == [addr : NbAddrs, payload : 1..MaxPayload]

\* the Neighbors section that mirrors a PeerGroups section, element by element
AsNeighbors(s) == [i \in 1..Len(s) |-> [addr |-> AddrOf(s[i].name), payload |-> s[i].payload]]

\* inSlice(n, slice): index (from 0) of the neighbor with the address of n
\* in the slice, -1 when there is none
inSlice(n, b) ==
    IF \E i \in 1..Len(b) : b[i].addr = n.addr
    THEN (CHOOSE i \in 1..Len(b) :
             /\ b[i].addr = n.addr
             /\ \A k \in 1..(i - 1) : b[k].addr # n.addr) - 1
    ELSE -1

\* Neighbor.Equal: deep comparison of all configured fields
NeighborEqual(a, b) == a.addr = b.addr /\ a.payload = b.payload

\* serve.go:141-153  the loop over newC.Neighbors, from element i on
RECURSIVE NbNewLoop(_, _, _, _, _)
NbNewLoop(i, cur, new, added, updated) ==
    IF i > Len(new) THEN [added |-> added, updated |-> updated]
    ELSE LET n == new[i]
             idx == inSlice(n, cur)
         IN  IF idx < 0
             THEN NbNewLoop(i + 1, cur, new, Append(added, n), updated)
             ELSE IF ~NeighborEqual(n, cur[idx + 1])
             THEN NbNewLoop(i + 1, cur, new, added, Append(updated, n))
             ELSE NbNewLoop(i + 1, cur, new, added, updated)

\* serve.go:155-159  the loop over curC.Neighbors, from element i on
RECURSIVE NbCurLoop(_, _, _, _)
NbCurLoop(i, cur, new, deleted) ==
    IF i > Len(cur) THEN deleted
    ELSE IF inSlice(cur[i], new) < 0
    THEN NbCurLoop(i + 1, cur, new, Append(deleted, cur[i]))
    ELSE NbCurLoop(i + 1, cur, new, deleted)

\* the neighbor diff with the second loop running over the new snapshot
UpdateNeighborConfigSwapped(cur, new) ==
    LET r == NbNewLoop(1, cur, new, <<>>, <<>>)
    IN  [added |-> r.added, deleted |-> NbCurLoop(1, new, cur, <<>>), updated |-> r.updated]

\* serve.go:136-161
UpdateNeighborConfig(cur, new) ==
    LET r == NbNewLoop(1, cur, new, <<>>, <<>>)
    IN  [added |-> r.added, deleted |-> NbCurLoop(1, cur, new, <<>>), updated |-> r.updated]

\* a caller hands two snapshots to UpdateNeighborConfig
CallUpdateNeighborConfig ==
    /\ npc = "args"
    /\ LET r == UpdateNeighborConfig(curNb, newNb)
       IN  /\ addedNb' = r.added
           /\ deletedNb' = r.deleted
           /\ updatedNb' = r.updated
    /\ npc' = "done"
    /\ UNCHANGED <<curNb, newNb, pgVars, policyVars, loopVars>>

\* ----------------------------------------------------- CheckPolicyDifference
\* A *RoutingPolicy is <<>> when nil and <<p>> when it points to p (serve.go:
\* 102-107: DefinedSets and the ordered PolicyDefinitions).
Nil == <<>>
PolicyDefSeqs == UNION {[1..n -> 1..MaxPayload] : n \in 0..MaxPolicyDefs}
RoutingPolicies == [DefinedSets : 1..MaxPayload, PolicyDefinitions : PolicyDefSeqs]
PolicyPointers == {Nil} \cup {<<p>> : p \in RoutingPolicies}

\* RoutingPolicy.Equal: deep comparison of both fields
RoutingPolicyEqual(a, b) ==
    a.DefinedSets = b.DefinedSets /\ a.PolicyDefinitions = b.PolicyDefinitions

\* the check with the else branch of line 178 left out: result keeps its
\* zero value when exactly one policy is nil
CheckPolicyDifferenceNoElse(cur, new) ==
    IF cur = Nil /\ new = Nil THEN FALSE
    ELSE IF cur # Nil /\ new # Nil THEN ~RoutingPolicyEqual(cur[1], new[1])
    ELSE FALSE

\* serve.go:163-183
CheckPolicyDifference(cur, new) ==
    IF cur = Nil /\ new = Nil THEN FALSE
    ELSE IF cur # Nil /\ new # Nil THEN ~RoutingPolicyEqual(cur[1], new[1])
    ELSE TRUE

\* a caller hands two policies to CheckPolicyDifference
CallCheckPolicyDifference ==
    /\ ppc = "args"
    /\ result' = CheckPolicyDifference(currentPolicy, newPolicy)
    /\ ppc' = "done"
    /\ UNCHANGED <<currentPolicy, newPolicy, pgVars, nbVars, loopVars>>

\* the loop does not run while the diff functions are exercised
LoopIdle ==
    /\ pc = "load"
    /\ cnt = 0 /\ notFoundCnt = 0
    /\ c = 0 /\ err = "none" /\ log = "none"
    /\ configCh = <<>> /\ chCap = 0 /\ received = <<>>
    /\ pendingCb = 0 /\ raisedFs = 0 /\ raisedHup = 0 /\ droppedHup = 0
    /\ recvFs = 0 /\ recvHup = 0 /\ nLoads = 0 /\ retries = 0
    /\ startup = <<>> /\ burstLoad = -1

\* two snapshots, each with a PeerGroups section and the Neighbors section
\* that mirrors it
DiffInit ==
    /\ LoopIdle
    /\ curC \in Snapshots /\ newC \in Snapshots
    /\ addedPg = <<>> /\ deletedPg = <<>> /\ updatedPg = <<>>
    /\ dpc = "args"
    /\ curNb = AsNeighbors(curC) /\ newNb = AsNeighbors(newC)
    /\ addedNb = <<>> /\ deletedNb = <<>> /\ updatedNb = <<>>
    /\ npc = "args"
    /\ PolicyIdle

DiffNext ==
    \/ CallUpdatePeerGroupConfig
    \/ CallUpdateNeighborConfig

DiffSpec == DiffInit /\ [][DiffNext]_vars

PolicyInit ==
    /\ LoopIdle
    /\ curC = <<>> /\ newC = <<>>
    /\ addedPg = <<>> /\ deletedPg = <<>> /\ updatedPg = <<>>
    /\ dpc = "idle"
    /\ curNb = <<>> /\ newNb = <<>>
    /\ addedNb = <<>> /\ deletedNb = <<>> /\ updatedNb = <<>>
    /\ npc = "idle"
    /\ currentPolicy \in PolicyPointers /\ newPolicy \in PolicyPointers
    /\ result = FALSE /\ ppc = "args"

PolicyNext == CallCheckPolicyDifference

PolicySpec == PolicyInit /\ [][PolicyNext]_vars

\* ------------------------------------------------------------- scheduling
\* The loop goroutine keeps running: ReadConfigfile returns, the sleep
\* ends, a send whose receiver or buffer slot is there completes, and a
\* receive with a blocked callback completes. The consumer keeps taking
\* what the channel holds.
FairSpec ==
    /\ Spec
    /\ WF_vars(\E res \in Outcomes : Load(res))
    /\ WF_vars(Pause)
    /\ WF_vars(SendBuffered)
    /\ WF_vars(SendHandoff)
    /\ WF_vars(Consume)
    /\ WF_vars(RecvCallback)

\* ================================================================= claims
\* Snapshots whose send on configCh has completed.
Published == Len(received) + Len(configCh)
AllNotFound(s) == \A i \in 1..Len(s) : s[i] = "NotFound"
Range(s) == {s[i] : i \in 1..Len(s)}
NamesOf(s) == {s[i].name : i \in 1..Len(s)}

\* C1: once a snapshot has been published the loop is never at the fatal
\* exit, and a failed load leaves it pausing or waiting with a warning as
\* its last report.
C1_NoFatalAfterPublish ==
    Published >= 1 =>
        /\ pc # "fatal"
        /\ (err # "ok" /\ pc \in {"pause", "wait"}) => log \in {"NotLoaded", "CantReload"}

C1_Witness ==
    /\ Published >= 1 /\ nLoads >= 3
    /\ err = "ParseError" /\ pc = "wait" /\ log = "CantReload"

\* C2: while every load so far has failed with NotFound, at most 5 loads
\* are made, no notification is received, the loop is at the fatal exit
\* exactly when the 5th has failed, and 4 pauses precede it.
C2_FiveNotFoundThenFatal ==
    (startup # <<>> /\ AllNotFound(startup) /\ nLoads = Len(startup)) =>
        /\ nLoads <= 5
        /\ (pc = "fatal") <=> (nLoads = 5)
        /\ recvFs + recvHup = 0
        /\ retries <= 4
        /\ pc = "fatal" => retries = 4
        /\ pc # "fatal" => pc \in {"pause", "load"}

C2_Witness ==
    /\ pc = "fatal" /\ nLoads = 5 /\ retries = 4
    /\ Len(startup) = 5 /\ AllNotFound(startup)

\* C3: when the last load before any success failed with an error other
\* than NotFound, the loop is at the fatal exit, and between that failure
\* and the exit there was no retry, pause or receive: every load but the
\* first followed a pause, none followed a notification.
C3_OtherErrorFatalAtOnce ==
    (startup # <<>> /\ startup[Len(startup)] \in {"ParseError", "DefaultsError"}) =>
        /\ pc = "fatal"
        /\ Published = 0
        /\ nLoads = Len(startup)
        /\ retries = nLoads - 1
        /\ recvFs + recvHup = 0

C3_Witness ==
    /\ pc = "fatal" /\ err = "DefaultsError"
    /\ Len(startup) = 4 /\ AllNotFound(SubSeq(startup, 1, 3))

\* C4 (as claimed): after a publish the loop never pauses to retry a
\* NotFound by itself.
C4_NoRetryAfterPublish == Published >= 1 => pc # "pause"

\* C5: a load that fails starts no send and leaves the channel and what
\* the consumer has received as they were; a send is only ever in progress
\* after a successful load.
C5_FailedLoadSendsNothing ==
    /\ [](pc = "send" => err = "ok")
    /\ [][(pc = "load" /\ nLoads' = nLoads + 1 /\ err' # "ok") =>
            (configCh' = configCh /\ received' = received /\ pc' # "send")]_vars

C5_Witness ==
    /\ Published >= 1 /\ pc = "wait" /\ err = "NotFound" /\ notFoundCnt = 5

\* C6: what the consumer has received, then what the channel holds, then
\* the snapshot being sent, is exactly the sequence of successful loads
\* 1..cnt: none skipped, reordered or sent twice.
C6_DeliveredInLoadOrder ==
    /\ received \o configCh \o (IF pc = "send" THEN <<c>> ELSE <<>>)
           = [i \in 1..cnt |-> i]
    /\ \A i \in 1..Len(received) : received[i] = i

C6_Witness == Len(received) >= 3 /\ pc = "send"

\* C7: after k NotFound failures at startup (k in 1..4) the loop is on its
\* way to the next attempt; if that attempt succeeds the loop is not at
\* the fatal exit, it sends snapshot 1 and then waits for a notification,
\* with no further pause.
C7_RetryThenSuccess ==
    \A k \in 1..4 :
        /\ (Len(startup) = k /\ AllNotFound(startup)) => pc \in {"pause", "load"}
        /\ (Len(startup) = k + 1 /\ AllNotFound(SubSeq(startup, 1, k))
              /\ startup[k + 1] = "ok") =>
               /\ pc # "fatal"
               /\ nLoads = k + 1 =>
                     /\ retries = k
                     /\ \/ pc = "send" /\ c = 1 /\ Published = 0
                        \/ pc = "wait" /\ received \o configCh = <<1>>
                        \/ pc = "load" /\ recvFs + recvHup = 1
                              /\ received \o configCh = <<1>>

C7_Witness ==
    /\ Len(startup) = 5 /\ startup[5] = "ok" /\ AllNotFound(SubSeq(startup, 1, 4))
    /\ pc = "wait" /\ received = <<1>> /\ nLoads = 5

C9_EitherKindServed == recvFs + recvHup + pendingCb = raisedFs + raisedHup

\* C10: after UpdatePeerGroupConfig(curC, newC), a peer group of newC whose
\* name occurs in curC is named neither in added nor in deleted, is in
\* updated exactly when it differs from the group of curC of that name,
\* and updated holds no other value under that name; no name is in both
\* added and deleted.
C10_CommonNameUpdatedOrOmitted ==
    dpc = "done" =>
        /\ \A j \in 1..Len(newC) : \A i \in 1..Len(curC) :
              newC[j].name = curC[i].name =>
                  /\ newC[j].name \notin NamesOf(addedPg)
                  /\ newC[j].name \notin NamesOf(deletedPg)
                  /\ (newC[j] \in Range(updatedPg)) <=> (newC[j] # curC[i])
                  /\ \A u \in Range(updatedPg) : u.name = newC[j].name => u = newC[j]
        /\ NamesOf(addedPg) \cap NamesOf(deletedPg) = {}

C10_Witness ==
    /\ dpc = "done"
    /\ curC = <<[name |-> "A", payload |-> 1]>>
    /\ newC = <<[name |-> "A", payload |-> 2], [name |-> "B", payload |-> 1]>>
    /\ addedPg = <<[name |-> "B", payload |-> 1]>>
    /\ deletedPg = <<>>
    /\ updatedPg = <<[name |-> "A", payload |-> 2]>>

\* C11: UpdatePeerGroupConfig(A, A) returns nothing added, nothing deleted
\* and nothing updated.
C11_SameSnapshotNoChange ==
    (dpc = "done" /\ curC = newC) =>
        (addedPg = <<>> /\ deletedPg = <<>> /\ updatedPg = <<>>)

C11_Witness ==
    /\ dpc = "done" /\ curC = newC /\ Len(curC) = 2
    /\ addedPg = <<>> /\ deletedPg = <<>> /\ updatedPg = <<>>

\* C12: the deleted sequence of UpdatePeerGroupConfig(curC, newC) is the
\* added sequence of UpdatePeerGroupConfig(newC, curC), and its added
\* sequence is the deleted sequence of the swapped call, element by element.
C12_AddedDeletedAntiSymmetric ==
    dpc = "done" =>
        LET back == UpdatePeerGroupConfig(newC, curC)
        IN  /\ deletedPg = back.added
            /\ addedPg = back.deleted

C12_Witness ==
    /\ dpc = "done" /\ Len(deletedPg) = 2 /\ Len(addedPg) = 1
    /\ deletedPg[1] # deletedPg[2]

\* C13: with each neighbor read as the peer group named by its address,
\* UpdateNeighborConfig returns what UpdatePeerGroupConfig returns for the
\* corresponding snapshots; a neighbor of old whose address is not in new
\* is in deleted only, and one that is unchanged in both is in no result.
NbRange(s) == {s[i] : i \in 1..Len(s)}
C13_NeighborDiffMirrorsPeerGroupDiff ==
    (dpc = "done" /\ npc = "done"
        /\ curNb = AsNeighbors(curC) /\ newNb = AsNeighbors(newC)) =>
        /\ addedNb = AsNeighbors(addedPg)
        /\ deletedNb = AsNeighbors(deletedPg)
        /\ updatedNb = AsNeighbors(updatedPg)
        /\ \A n \in NbRange(curNb) :
              /\ (\A m \in NbRange(newNb) : m.addr # n.addr) =>
                    /\ n \in NbRange(deletedNb)
                    /\ n \notin NbRange(addedNb) \cup NbRange(updatedNb)
              /\ n \in NbRange(newNb) =>
                    n \notin NbRange(addedNb) \cup NbRange(deletedNb) \cup NbRange(updatedNb)

C13_Witness ==
    /\ dpc = "done" /\ npc = "done"
    /\ curNb = <<[addr |-> "10.0.0.1", payload |-> 1], [addr |-> "10.0.0.2", payload |-> 1]>>
    /\ newNb = <<[addr |-> "10.0.0.1", payload |-> 1]>>
    /\ addedNb = <<>> /\ updatedNb = <<>>
    /\ deletedNb = <<[addr |-> "10.0.0.2", payload |-> 1]>>

\* C14: CheckPolicyDifference is false for two nil policies, true when
\* exactly one is nil, and for two policies true exactly when they differ.
C14_PolicyDifference ==
    ppc = "done" =>
        /\ (currentPolicy = <<>> /\ newPolicy = <<>>) => result = FALSE
        /\ (currentPolicy = <<>> /\ newPolicy # <<>>) => result = TRUE
        /\ (currentPolicy # <<>> /\ newPolicy = <<>>) => result = TRUE
        /\ (currentPolicy # <<>> /\ newPolicy # <<>>) =>
              (result <=> currentPolicy[1] # newPolicy[1])

C14_Witness ==
    /\ ppc = "done" /\ result = TRUE
    /\ currentPolicy = <<>>
    /\ newPolicy # <<>> /\ newPolicy[1].PolicyDefinitions = <<1, 2>>

\* C15: while the send of a snapshot is not complete the loop completes no
\* load and receives no notification; the loop is never further ahead of
\* the consumer than the channel's capacity plus the snapshot being sent,
\* and on an unbuffered channel a snapshot the consumer has not taken
\* means the loop is still at its send.
C15_SendIsBackpressure ==
    /\ [][(pc = "send" /\ pc' = "send") =>
            (nLoads' = nLoads /\ recvFs' = recvFs /\ recvHup' = recvHup
                /\ cnt' = cnt /\ c' = c)]_vars
    /\ [][(pc = "send" /\ pc' # "send") =>
            (pc' = "wait" /\ received' \o configCh' = Append(received \o configCh, c))]_vars
    /\ [](Len(configCh) <= chCap /\ cnt - Len(received) <= chCap + 1)
    /\ []((chCap = 0 /\ cnt > Len(received)) => (pc = "send" /\ c = cnt))

C15_Witness ==
    /\ pc = "send" /\ c = 2 /\ chCap = 1 /\ configCh = <<1>>
    /\ pendingCb = 2 /\ received = <<>>

\* C16 (as claimed): at the fatal exit nothing was published and 5 load
\* attempts have been made.
C16_FatalOnlyAfterFiveLoads ==
    pc = "fatal" => (Published = 0 /\ nLoads >= 5)

\* C16 (amended): at the fatal exit nothing was published and no load has
\* succeeded; the last load failed with NotFound as the 5th attempt, or
\* with another error as any of the first 5 attempts.
C16_FatalOnlyBeforeFirstPublish ==
    pc = "fatal" =>
        /\ Published = 0 /\ cnt = 0
        /\ nLoads = Len(startup)
        /\ \/ err = "NotFound" /\ nLoads = 5
           \/ err \in {"ParseError", "DefaultsError"} /\ nLoads \in 1..5

C16_Witness == pc = "fatal" /\ err = "ParseError" /\ nLoads = 1

\* C17: notFoundCnt never decreases; over the whole run at most 4 NotFound
\* failures are answered by a pause, namely the first 4; from the 5th on a
\* NotFound ends at the fatal exit before a publish and at the wait after it.
C17_NotFoundCounterNeverReset ==
    /\ [][notFoundCnt' >= notFoundCnt]_vars
    /\ [](retries <= 4 /\ (pc = "pause" => notFoundCnt <= 4))
    /\ [][(pc = "load" /\ nLoads' = nLoads + 1 /\ err' = "NotFound") =>
            /\ notFoundCnt' = notFoundCnt + 1
            /\ notFoundCnt' <= 4 => pc' = "pause"
            /\ notFoundCnt' >= 5 =>
                  pc' = (IF Published = 0 THEN "fatal" ELSE "wait")]_vars

C17_Witness ==
    /\ Published >= 1 /\ notFoundCnt = 6 /\ retries = 4
    /\ pc = "wait" /\ err = "NotFound" /\ log = "CantReload"

\* C18: unless the process exits fatally, the n-th file-change notification
\* raised is eventually followed by the n-th receive from a callback, which
\* starts a load.
C18_EveryFileChangeLoaded ==
    \A n \in 1..MaxFs :
        (raisedFs >= n) ~> (recvFs >= n \/ pc = "fatal")

C18_Witness ==
    /\ raisedFs >= 2 /\ recvFs = raisedFs /\ burstLoad = 0
    /\ pc = "load" /\ nLoads >= 2

\* C19: taking the groups of curC not named in deleted or updated, with
\* the updated and the added groups, gives exactly the groups of newC;
\* the names of added, deleted and updated are pairwise disjoint and none
\* is repeated.
C19_ChangeSetCompleteAndMinimal ==
    dpc = "done" =>
        LET kept == {g \in Range(curC) :
                        g.name \notin NamesOf(deletedPg) \cup NamesOf(updatedPg)}
        IN  /\ kept \cup Range(updatedPg) \cup Range(addedPg) = Range(newC)
            /\ NamesOf(deletedPg) \subseteq NamesOf(curC)
            /\ NamesOf(updatedPg) \subseteq NamesOf(curC)
            /\ NamesOf(addedPg) \cap NamesOf(curC) = {}
            /\ kept = Range(curC) \cap Range(newC)
            /\ NamesOf(addedPg) \cap NamesOf(deletedPg) = {}
            /\ NamesOf(addedPg) \cap NamesOf(updatedPg) = {}
            /\ NamesOf(deletedPg) \cap NamesOf(updatedPg) = {}
            /\ Cardinality(NamesOf(addedPg)) = Len(addedPg)
            /\ Cardinality(NamesOf(deletedPg)) = Len(deletedPg)
            /\ Cardinality(NamesOf(updatedPg)) = Len(updatedPg)

C19_Witness ==
    /\ dpc = "done"
    /\ Len(addedPg) = 1 /\ Len(deletedPg) = 1 /\ Len(updatedPg) = 1

====
